---------------------------- MODULE Spec2Model ----------------------------
(***************************************************************************)
(* FacePlayTrigger (src/main.py): the expression detectors (detect_wink,   *)
(* detect_smile), the trigger dispatcher (trigger_action), the playback    *)
(* controller (load_music, play_music, pause_music, stop_music) and the    *)
(* main loop (run).                                                        *)
(*                                                                         *)
(* Times are in tenths of a second: time.time() is `now', the 3.0 s        *)
(* cooldown is 30 and the 1.5 s sampling interval is 15.                   *)
(***************************************************************************)
EXTENDS Integers, Sequences, FiniteSets, TLC

VARIABLES
    \* ---- debounce state (FacePlayTrigger.__init__, lines 36-44)
    last_eye_count,    \* self.last_eye_count
    wink_frames,       \* self.wink_frames
    smile_frames,      \* self.smile_frames
    \* ---- history of the frames fed to detect_wink
    eyeStream,         \* the eye counts fed so far, while there are at most MaxStream
    winkOut,           \* detect_wink's return value for each frame of eyeStream
    eyeRecording,      \* FALSE once more than MaxStream frames were fed
    cur,               \* the eye count of the latest frame fed (NoFrame: none yet)
    runLen,            \* number of consecutive 1-frames immediately before the latest frame
    runPre,            \* the frame immediately before that run (NoFrame: start of stream)
    lastWinkOut,       \* detect_wink's return value for the latest frame
    \* ---- history of the frames fed to detect_smile
    smileStream,       \* the smile flags fed so far, while there are at most MaxStream
    smileOut,          \* detect_smile's return value for each frame of smileStream
    smileRecording,    \* FALSE once more than MaxStream frames were fed
    trueRun,           \* length of the run of TRUE frames that ends at the latest frame
    onsetsInRun,       \* SmileOnsets emitted during that run
    lastSmileOut,      \* detect_smile's return value for the latest frame
    \* ---- configuration and clock
    config,            \* self.config["expressions"]: expression -> its "action" (Absent: no entry)
    now,               \* what time.time() returns
    \* ---- trigger dispatcher
    last_trigger_time, \* self.last_trigger_time
    threads,           \* the threading.Thread objects started and not yet finished
    opened,            \* number of webbrowser.open calls made by play_youtube
    evLog,             \* one entry per trigger_action call: who, when, what happened
    \* ---- playback controller (lines 23-24, 46-51)
    music_file,        \* self.music_file (None: nothing loaded)
    audio_process,     \* self.audio_process: NoProcess, or the index in procs of the Popen object
    is_paused,         \* self.is_paused
    procs,             \* every process spawned so far: "running", "stopped" (suspended),
                       \* "stopped_sigterm" (suspended, SIGTERM pending),
                       \* "terminated" (by SIGTERM) or "exited" (on its own)
    installs,          \* install commands run by play_music while visiting the current face
    spawns,            \* Popen attempts made by play_music while visiting the current face
    \* ---- main loop
    is_smiling,        \* self.is_smiling
    last_smile_check,  \* self.last_smile_check
    pc,                \* where run() is
    facesLeft,         \* faces of the current frame still to be visited by the for loop
    frame,             \* what the cascades reported for the current face (NoFace: between frames)
    exc,               \* the exception that ended run(), or "none"
    calls,             \* the two latest controller calls run() made, oldest first
    camera,            \* "open", or "released" once cap.release() has run
    \* ---- the playback controller called directly
    lastCall           \* the latest call: its name, the state it found, what it did

winkVars  == <<last_eye_count, wink_frames, eyeStream, winkOut, eyeRecording,
               cur, runLen, runPre, lastWinkOut>>
smileVars == <<smile_frames, smileStream, smileOut, smileRecording,
               trueRun, onsetsInRun, lastSmileOut>>
dispVars  == <<last_trigger_time, threads, opened, evLog>>
envVars   == <<config, now>>
playVars  == <<music_file, audio_process, is_paused, procs, installs, spawns>>
loopVars  == <<is_smiling, last_smile_check, pc, facesLeft, frame, exc>>
runVars   == <<calls, camera>>
callVars  == <<lastCall>>
vars == <<winkVars, smileVars, dispVars, envVars, playVars, loopVars, runVars,
          callVars>>

----------------------------------------------------------------------------
(* Bounds of the model *)

\* Streams of at most this many frames are recorded frame by frame.
MaxStream == 6
\* Longest run of consecutive single-eye frames fed to detect_wink.
MaxRun == 10
\* Longest run of consecutive smile frames fed to detect_smile.
MaxSmileRun == 5

\* Number of trigger_action calls followed.
MaxLog == 4
\* Latest clock reading, in tenths of a second.
MaxTime == 61

\* Most faces the face cascade reports in one frame.
MaxFaces == 2
\* Most times in a row the install command succeeds and mpg123 is still not found.
MaxReinstalls == 1
\* Most audio processes spawned when the controller is called directly.
MaxProcs == 2
\* Most dispatcher calls made while the main thread also drives the controller.
MaxTasks == 2

(* Program constants *)

\* `self.smile_check_interval = 1.5', in tenths of a second
smile_check_interval == 15
\* `self.trigger_cooldown = 3.0', in tenths of a second
trigger_cooldown == 30

\* `1 <= self.wink_frames <= 8'
WinkMaxFrames == 8
\* `if self.smile_frames == 3'
SmileOnsetFrames == 3

\* len(eyes) as the eye cascade reports it: no eye, one, two, or a spurious third.
EyeCounts == {0, 1, 2, 3}
\* "no frame", before the first frame of a stream: a value no frame has.
NoFrame == CHOOSE n \in -1..0 : n \notin EyeCounts
\* Python's None, for self.music_file.
None == "None"
\* `self.audio_process = None': no Popen object (the processes are numbered from 1).
NoProcess == 0
\* No face visited yet.
NoFace == [eyes |-> NoFrame, smile |-> FALSE]

----------------------------------------------------------------------------
(* detect_wink, lines 99-119: the new (last_eye_count, wink_frames) and the
   return value, for the debounce state (lec, wf) and len(eyes) = n. *)

DetectWinkMinTwo(lec, wf, n) ==
    IF lec = 2 /\ n = 1
      THEN [last_eye_count |-> n, wink_frames |-> wf + 1, ret |-> FALSE]
    ELSE IF lec = 1 /\ n = 2 /\ wf > 0
      THEN [last_eye_count |-> n, wink_frames |-> 0,
            ret |-> (2 <= wf /\ wf <= WinkMaxFrames)]
    ELSE IF n = 2
      THEN [last_eye_count |-> n, wink_frames |-> 0, ret |-> FALSE]
    ELSE [last_eye_count |-> n, wink_frames |-> wf, ret |-> FALSE]

\* A detect_wink whose counter counts every frame of the single-eye run.
DetectWinkCountsRun(lec, wf, n) ==
    IF n = 1 /\ lec \in {1, 2}
      THEN [last_eye_count |-> n, wink_frames |-> wf + 1, ret |-> FALSE]
    ELSE IF lec = 1 /\ n = 2 /\ wf > 0
      THEN [last_eye_count |-> n, wink_frames |-> 0,
            ret |-> (1 <= wf /\ wf <= WinkMaxFrames)]
    ELSE IF n = 2
      THEN [last_eye_count |-> n, wink_frames |-> 0, ret |-> FALSE]
    ELSE [last_eye_count |-> n, wink_frames |-> wf, ret |-> FALSE]

DetectWink(lec, wf, n) ==
    IF lec = 2 /\ n = 1
      THEN [last_eye_count |-> n, wink_frames |-> wf + 1, ret |-> FALSE]
    ELSE IF lec = 1 /\ n = 2 /\ wf > 0
      THEN IF 1 <= wf /\ wf <= WinkMaxFrames
             THEN [last_eye_count |-> n, wink_frames |-> 0, ret |-> TRUE]
             ELSE [last_eye_count |-> n, wink_frames |-> 0, ret |-> FALSE]
    ELSE IF n = 2
      THEN [last_eye_count |-> n,
            wink_frames |-> IF wf > 0 THEN 0 ELSE wf, ret |-> FALSE]
    ELSE [last_eye_count |-> n, wink_frames |-> wf, ret |-> FALSE]

(* detect_smile, lines 133-141: the new smile_frames and the return value, for
   the counter sf and present = (len(smiles) > 0). *)

DetectSmileAtLeast(sf, present) ==
    IF present
      THEN [smile_frames |-> sf + 1, ret |-> (sf + 1 >= SmileOnsetFrames)]
      ELSE [smile_frames |-> 0, ret |-> FALSE]

DetectSmile(sf, present) ==
    IF present
      THEN [smile_frames |-> sf + 1, ret |-> (sf + 1 = SmileOnsetFrames)]
      ELSE [smile_frames |-> 0, ret |-> FALSE]

----------------------------------------------------------------------------
(* Configuration: load_config, lines 53-82 *)

\* The keys of self.last_trigger_time (line 30).
Expressions == {"eyebrow_raise", "wink", "smile"}
\* The expressions the detectors report: detect_wink and detect_smile.
EventNames == {"wink", "smile"}
\* An expression with no entry in config["expressions"].
Absent == "absent"

\* The built-in configuration used when config.json is missing (lines 60-82).
DefaultConfig ==
    [e \in Expressions |->
        CASE e = "eyebrow_raise" -> "play_youtube"
          [] e = "wink"          -> "play_local"
          [] e = "smile"         -> "play_youtube"]

\* Two config.json files: one that plays local music on a smile, one with an
\* action name trigger_action does not know and an expression left out.
MusicConfig ==
    [e \in Expressions |->
        CASE e = "eyebrow_raise" -> Absent
          [] e = "wink"          -> "play_youtube"
          [] e = "smile"         -> "play_local"]

OddConfig ==
    [e \in Expressions |->
        CASE e = "eyebrow_raise" -> "play_local"
          [] e = "wink"          -> Absent
          [] e = "smile"         -> "play_sound"]

Configs == {DefaultConfig, MusicConfig, OddConfig}

----------------------------------------------------------------------------
(* trigger_action, lines 143-163, called at time t for expression e with the
   cooldown table ltt and the configuration cfg.
     out     "suppressed" (returned at line 147) or "dispatched"
     stamp   last_trigger_time[e] after the call
     thread  the target of the thread started, or "none"
     exc     the exception the call raises in the calling thread, or "none" *)

TriggerActionInclusive(ltt, cfg, e, t) ==
    IF t - ltt[e] <= trigger_cooldown
      THEN [out |-> "suppressed", stamp |-> ltt[e], thread |-> "none", exc |-> "none"]
    ELSE IF cfg[e] = Absent
      THEN [out |-> "dispatched", stamp |-> t, thread |-> "none", exc |-> "none"]
    ELSE IF cfg[e] = "play_youtube"
      THEN [out |-> "dispatched", stamp |-> t, thread |-> "play_youtube", exc |-> "none"]
    ELSE IF cfg[e] = "play_local"
      THEN [out |-> "dispatched", stamp |-> t, thread |-> "none", exc |-> "AttributeError"]
    ELSE [out |-> "dispatched", stamp |-> t, thread |-> "none", exc |-> "none"]

TriggerAction(ltt, cfg, e, t) ==
    IF t - ltt[e] < trigger_cooldown
      THEN \* line 147: return
           [out |-> "suppressed", stamp |-> ltt[e], thread |-> "none", exc |-> "none"]
    ELSE IF cfg[e] = Absent
      THEN \* line 153: return, after line 149 has set the timestamp
           [out |-> "dispatched", stamp |-> t, thread |-> "none", exc |-> "none"]
    ELSE IF cfg[e] = "play_youtube"
      THEN \* line 161
           [out |-> "dispatched", stamp |-> t, thread |-> "play_youtube", exc |-> "none"]
    ELSE IF cfg[e] = "play_local"
      THEN \* line 163: FacePlayTrigger has no attribute play_local_audio, so
           \* evaluating the Thread's target raises before any thread exists
           [out |-> "dispatched", stamp |-> t, thread |-> "none", exc |-> "AttributeError"]
    ELSE \* an action that is neither: nothing is started
         [out |-> "dispatched", stamp |-> t, thread |-> "none", exc |-> "none"]

----------------------------------------------------------------------------
(* Playback controller *)

\* run(), lines 232-241: the path of the music file, from the configuration.
MusicPath(cfg) ==
    IF cfg["smile"] = "play_local" THEN "smile.media_path"
    ELSE IF cfg["eyebrow_raise"] = "play_local" THEN "eyebrow_raise.media_path"
    ELSE None

\* load_music, lines 173-181: self.music_file after load_music(path), where
\* exists is os.path.exists(path).
LoadMusic(mf, path, exists) == IF exists THEN path ELSE mf

(* What one pass through lines 190-204 meets:
     "spawned"         Popen succeeds
     "installed"       Popen raises FileNotFoundError and the install command
                       succeeds, so play_music calls itself (line 202)
     "install_failed"  Popen raises FileNotFoundError and the install command
                       exits non-zero: CalledProcessError, caught at line 203
     "no_launcher"     Popen raises FileNotFoundError and so does subprocess.run
                       (no sudo): nothing catches it
   A play_music call meets "installed" any number of times, then one of the others. *)
PlayEnvs ==
    {env \in UNION {[1..n -> {"spawned", "installed", "install_failed", "no_launcher"}] :
                        n \in 1..(MaxReinstalls + 1)} :
        /\ \A i \in 1..(Len(env) - 1) : env[i] = "installed"
        /\ env[Len(env)] # "installed"}

\* Lines 188-204 with self.audio_process unset: the i-th nested call of play_music.
RECURSIVE PlayNew(_, _)
PlayNew(env, i) ==
    CASE env[i] = "spawned" ->
           [started |-> TRUE, installs |-> i - 1, spawns |-> i, exc |-> "none"]
      [] env[i] = "installed" ->
           PlayNew(env, i + 1)
      [] env[i] = "install_failed" ->
           [started |-> FALSE, installs |-> i, spawns |-> i, exc |-> "none"]
      [] env[i] = "no_launcher" ->
           [started |-> FALSE, installs |-> i, spawns |-> i, exc |-> "FileNotFoundError"]

\* The states of a spawned process in which it is alive.
AliveStates == {"running", "stopped", "stopped_sigterm"}

\* send_signal(19), send_signal(18) and terminate() on the Popen object p (lines
\* 207, 215, 222), on Linux, whose signal numbers the code uses: a process that
\* has ended is not signalled; SIGSTOP suspends a running process, SIGCONT
\* continues a suspended one, SIGTERM ends a running process and stays pending
\* on a suspended one until it is continued.
Deliver(ps, p, sig) ==
    LET st == ps[p]
        to == IF sig = "SIGSTOP" /\ st = "running" THEN "stopped"
              ELSE IF sig = "SIGCONT" /\ st = "stopped" THEN "running"
              ELSE IF sig = "SIGCONT" /\ st = "stopped_sigterm" THEN "terminated"
              ELSE IF sig = "terminate" /\ st = "running" THEN "terminated"
              ELSE IF sig = "terminate" /\ st = "stopped" THEN "stopped_sigterm"
              ELSE st
    IN  [ps EXCEPT ![p] = to]

\* A play_music that starts a new player when it is called on a paused one.
PlayMusicRespawn(mf, ap, paused, ps, env) ==
    IF mf = None \/ (ap # NoProcess /\ ~paused)
      THEN [audio_process |-> ap, is_paused |-> paused, procs |-> ps,
            installs |-> 0, spawns |-> 0, exc |-> "none", signal |-> "none"]
      ELSE [audio_process |-> Len(ps) + 1, is_paused |-> FALSE,
            procs |-> Append(ps, "running"),
            installs |-> 0, spawns |-> 1, exc |-> "none", signal |-> "none"]

\* play_music, lines 183-209. signal is what the call sends to the process.
PlayMusic(mf, ap, paused, ps, env) ==
    IF mf = None
      THEN [audio_process |-> ap, is_paused |-> paused, procs |-> ps,
            installs |-> 0, spawns |-> 0, exc |-> "none", signal |-> "none"]
    ELSE IF ap = NoProcess
      THEN LET r == PlayNew(env, 1)
           IN  IF r.started
                 THEN [audio_process |-> Len(ps) + 1, is_paused |-> FALSE,
                       procs |-> Append(ps, "running"),
                       installs |-> r.installs, spawns |-> r.spawns, exc |-> r.exc,
                       signal |-> "none"]
                 ELSE [audio_process |-> ap, is_paused |-> paused, procs |-> ps,
                       installs |-> r.installs, spawns |-> r.spawns, exc |-> r.exc,
                       signal |-> "none"]
    ELSE IF paused
      THEN \* lines 206-208: send_signal(18)
           [audio_process |-> ap, is_paused |-> FALSE,
            procs |-> Deliver(ps, ap, "SIGCONT"),
            installs |-> 0, spawns |-> 0, exc |-> "none", signal |-> "SIGCONT"]
    ELSE [audio_process |-> ap, is_paused |-> paused, procs |-> ps,
          installs |-> 0, spawns |-> 0, exc |-> "none", signal |-> "none"]

\* A pause_music that suspends the player and does not record it.
PauseMusicUnrecorded(ap, paused, ps) ==
    IF ap # NoProcess /\ ~paused
      THEN [audio_process |-> ap, is_paused |-> FALSE,
            procs |-> Deliver(ps, ap, "SIGSTOP"), signal |-> "SIGSTOP"]
      ELSE [audio_process |-> ap, is_paused |-> paused, procs |-> ps,
            signal |-> "none"]

\* pause_music, lines 211-217.
PauseMusic(ap, paused, ps) ==
    IF ap # NoProcess /\ ~paused
      THEN \* lines 215-216: send_signal(19)
           [audio_process |-> ap, is_paused |-> TRUE,
            procs |-> Deliver(ps, ap, "SIGSTOP"), signal |-> "SIGSTOP"]
      ELSE [audio_process |-> ap, is_paused |-> paused, procs |-> ps,
            signal |-> "none"]

\* A stop_music that leaves a paused player alone.
StopMusicUnlessPaused(ap, paused, ps) ==
    IF ap # NoProcess /\ ~paused
      THEN [audio_process |-> NoProcess, is_paused |-> FALSE,
            procs |-> Deliver(ps, ap, "terminate"), signal |-> "terminate"]
      ELSE [audio_process |-> ap, is_paused |-> paused, procs |-> ps,
            signal |-> "none"]

\* stop_music, lines 219-225.
StopMusic(ap, paused, ps) ==
    IF ap # NoProcess
      THEN [audio_process |-> NoProcess, is_paused |-> FALSE,
            procs |-> Deliver(ps, ap, "terminate"), signal |-> "terminate"]
      ELSE [audio_process |-> ap, is_paused |-> paused, procs |-> ps,
            signal |-> "none"]

\* The clock readings followed: within a tenth of a second of a multiple of the cooldown.
Instants ==
    {t \in 0..MaxTime :
        (t % trigger_cooldown) \in {0, 1, trigger_cooldown - 1}}

----------------------------------------------------------------------------
(* The detectors driven one frame at a time *)

WinkInit ==
    /\ last_eye_count = 2
    /\ wink_frames = 0
    /\ eyeStream = << >>
    /\ winkOut = << >>
    /\ eyeRecording = TRUE
    /\ cur = NoFrame
    /\ runLen = 0
    /\ runPre = NoFrame
    /\ lastWinkOut = FALSE

SmileInit ==
    /\ smile_frames = 0
    /\ smileStream = << >>
    /\ smileOut = << >>
    /\ smileRecording = TRUE
    /\ trueRun = 0
    /\ onsetsInRun = 0
    /\ lastSmileOut = FALSE

\* One call detect_wink(eyes) with len(eyes) = n.
FeedEyes(n) ==
    LET r    == DetectWink(last_eye_count, wink_frames, n)
        keep == eyeRecording /\ Len(eyeStream) < MaxStream
        len  == IF cur = 1 THEN runLen + 1 ELSE 0
    IN  /\ len <= MaxRun
        /\ last_eye_count' = r.last_eye_count
        /\ wink_frames' = r.wink_frames
        /\ lastWinkOut' = r.ret
        /\ eyeRecording' = keep
        /\ eyeStream' = IF keep THEN Append(eyeStream, n) ELSE << >>
        /\ winkOut' = IF keep THEN Append(winkOut, r.ret) ELSE << >>
        /\ cur' = n
        /\ runLen' = len
        /\ runPre' = IF cur = 1 THEN runPre ELSE cur

\* One call detect_smile(...) on a frame whose smile cascade finds a smile or not.
FeedSmile(present) ==
    LET r    == DetectSmile(smile_frames, present)
        keep == smileRecording /\ Len(smileStream) < MaxStream
        run  == IF present THEN trueRun + 1 ELSE 0
    IN  /\ run <= MaxSmileRun
        /\ smile_frames' = r.smile_frames
        /\ lastSmileOut' = r.ret
        /\ smileRecording' = keep
        /\ smileStream' = IF keep THEN Append(smileStream, present) ELSE << >>
        /\ smileOut' = IF keep THEN Append(smileOut, r.ret) ELSE << >>
        /\ trueRun' = run
        /\ onsetsInRun' = IF present
                            THEN onsetsInRun + (IF r.ret THEN 1 ELSE 0)
                            ELSE 0

WinkFrame ==
    \E n \in EyeCounts : FeedEyes(n) /\ UNCHANGED <<callVars, runVars, smileVars, dispVars, envVars, playVars, loopVars>>

SmileFrame ==
    \E b \in BOOLEAN : FeedSmile(b) /\ UNCHANGED <<callVars, runVars, winkVars, dispVars, envVars, playVars, loopVars>>

----------------------------------------------------------------------------
(* The dispatcher driven one event at a time *)

DispInit ==
    /\ last_trigger_time = [e \in Expressions |-> 0]
    /\ threads = << >>
    /\ opened = 0
    /\ evLog = << >>

EnvInit ==
    /\ config \in Configs
    /\ now = 0

\* One call trigger_action(e), with time.time() = now.
Trigger(e) ==
    LET r == TriggerAction(last_trigger_time, config, e, now)
    IN  /\ Len(evLog) < MaxLog
        /\ last_trigger_time' = [last_trigger_time EXCEPT ![e] = r.stamp]
        /\ threads' = IF r.thread = "none"
                         THEN threads
                         ELSE Append(threads, [target |-> r.thread, args |-> e])
        /\ evLog' = Append(evLog, [e |-> e, t |-> now, out |-> r.out,
                                   stamp |-> r.stamp, thread |-> r.thread,
                                   exc |-> r.exc])
        /\ UNCHANGED <<callVars, runVars, opened, envVars, winkVars, smileVars, playVars, loopVars>>

TriggerEvent == \E e \in EventNames : Trigger(e)

\* A task that stops the player on its way out.
PlayYoutubeStopsPlayer ==
    \E i \in 1..Len(threads) :
        LET r == StopMusic(audio_process, is_paused, procs)
        IN  /\ threads[i].target = "play_youtube"
            /\ threads' = [j \in 1..(Len(threads) - 1) |->
                              IF j < i THEN threads[j] ELSE threads[j + 1]]
            /\ opened' = opened + 1
            /\ audio_process' = r.audio_process
            /\ is_paused' = r.is_paused
            /\ procs' = r.procs
            /\ UNCHANGED <<callVars, runVars, last_trigger_time, evLog, envVars,
                           winkVars, smileVars, music_file, installs, spawns,
                           loopVars>>

\* play_youtube, lines 165-171, in its own thread: webbrowser.open succeeds, or
\* raises and the exception is caught and printed.
PlayYoutube ==
    \E i \in 1..Len(threads), ok \in BOOLEAN :
        /\ threads[i].target = "play_youtube"
        /\ threads' = [j \in 1..(Len(threads) - 1) |->
                          IF j < i THEN threads[j] ELSE threads[j + 1]]
        /\ opened' = IF ok THEN opened + 1 ELSE opened
        /\ UNCHANGED <<callVars, runVars, last_trigger_time, evLog, envVars, winkVars, smileVars,
                       playVars, loopVars>>

\* Time passes between two calls of the dispatcher.
Advance ==
    /\ \E t \in Instants : t > now /\ now' = t
    /\ UNCHANGED <<callVars, runVars, config, dispVars, winkVars, smileVars, playVars, loopVars>>

----------------------------------------------------------------------------
(* run(), lines 227-325 *)

PlayInit ==
    /\ music_file = None
    /\ audio_process = NoProcess
    /\ is_paused = FALSE
    /\ procs = << >>
    /\ installs = 0
    /\ spawns = 0

LoopInit ==
    /\ is_smiling = FALSE
    /\ last_smile_check = 0
    /\ pc = "start"
    /\ facesLeft = 0
    /\ frame = NoFace
    /\ exc = "none"
    /\ calls = <<"none", "none">>
    /\ camera = "open"

\* A sampling test that lets a sample through a tenth of a second early.
DueEarly(t, last) == t - last >= smile_check_interval - 1

\* Line 289: a smile sample is due at time t when the last one was taken at last.
Due(t, last) == t - last >= smile_check_interval

\* An edge test that forgets the is_smiling flag.
EdgeWithoutMemory(due, smile, smiling) ==
    IF due /\ smile THEN "rising"
    ELSE IF due /\ ~smile THEN "falling"
    ELSE "none"

\* Lines 294-301: the edge a pass of the for loop reports, for the smile value
\* it sees and the is_smiling flag.
Edge(due, smile, smiling) ==
    IF due /\ smile /\ ~smiling THEN "rising"
    ELSE IF due /\ ~smile /\ smiling THEN "falling"
    ELSE "none"

\* Lines 229-249: pick the music path and load it.
RunStart ==
    /\ pc = "start"
    /\ \E exists \in BOOLEAN :
          music_file' = IF MusicPath(config) # None
                          THEN LoadMusic(music_file, MusicPath(config), exists)
                          ELSE music_file
    /\ pc' = "loop"
    /\ UNCHANGED <<callVars, runVars, audio_process, is_paused, procs, installs, spawns,
                   is_smiling, last_smile_check, facesLeft, frame, exc,
                   winkVars, smileVars, dispVars, envVars>>

\* Lines 252-266: read a frame (ret False leaves the loop) and find its faces.
ReadFrame ==
    /\ pc = "loop"
    /\ \E ret \in BOOLEAN, n \in 0..MaxFaces :
          /\ pc' = IF ret THEN "faces" ELSE "cleanup"
          /\ facesLeft' = IF ret THEN n ELSE 0
    /\ UNCHANGED <<callVars, runVars, playVars, is_smiling, last_smile_check, frame, exc,
                   winkVars, smileVars, dispVars, envVars>>

\* Lines 268-313, one pass of the for loop: the eye cascade reports eyes, and
\* detect_smile_state would report smile; time.time() is now.
VisitFace(eyes, smile, env) ==
    LET sample == Due(now, last_smile_check)
        rising == Edge(sample, smile, is_smiling) = "rising"
        falling == Edge(sample, smile, is_smiling) = "falling"
        played == PlayMusic(music_file, audio_process, is_paused, procs, env)
        paused == PauseMusic(audio_process, is_paused, procs)
    IN  /\ frame' = [eyes |-> eyes, smile |-> smile]
        /\ last_smile_check' = IF sample THEN now ELSE last_smile_check
        /\ is_smiling' = IF rising THEN TRUE
                          ELSE IF falling THEN FALSE
                          ELSE is_smiling
        /\ audio_process' = IF rising THEN played.audio_process
                             ELSE IF falling THEN paused.audio_process
                             ELSE audio_process
        /\ is_paused' = IF rising THEN played.is_paused
                         ELSE IF falling THEN paused.is_paused
                         ELSE is_paused
        /\ procs' = IF rising THEN played.procs
                     ELSE IF falling THEN paused.procs
                     ELSE procs
        /\ installs' = IF rising THEN played.installs ELSE 0
        /\ spawns' = IF rising THEN played.spawns ELSE 0
        /\ exc' = IF rising THEN played.exc ELSE exc
        /\ pc' = IF rising /\ played.exc # "none" THEN "crashed" ELSE "faces"
        /\ facesLeft' = facesLeft - 1
        /\ calls' = IF rising THEN <<calls[2], "play">>
                    ELSE IF falling THEN <<calls[2], "pause">>
                    ELSE calls
        /\ UNCHANGED <<callVars, camera, music_file, winkVars, smileVars, dispVars, envVars>>

\* The pass calls play_music with nothing playing yet: Popen is reached.
Spawning(smile) ==
    /\ Edge(Due(now, last_smile_check), smile, is_smiling) = "rising"
    /\ music_file # None /\ audio_process = NoProcess

ProcessFace ==
    /\ pc = "faces"
    /\ facesLeft > 0
    /\ \E eyes \in EyeCounts, smile \in BOOLEAN :
          IF Spawning(smile)
            THEN \E env \in PlayEnvs : VisitFace(eyes, smile, env)
            ELSE VisitFace(eyes, smile, << >>)

\* Lines 316-320: show the frame; 'q' leaves the loop.
EndFrame ==
    /\ pc = "faces"
    /\ facesLeft = 0
    /\ \E quit \in BOOLEAN : pc' = IF quit THEN "cleanup" ELSE "loop"
    /\ frame' = NoFace
    /\ installs' = 0
    /\ spawns' = 0
    /\ UNCHANGED <<callVars, runVars, music_file, audio_process, is_paused, procs,
                   is_smiling, last_smile_check, facesLeft, exc,
                   winkVars, smileVars, dispVars, envVars>>

\* Line 323: stop_music().
Shutdown ==
    /\ pc = "cleanup"
    /\ LET r == StopMusic(audio_process, is_paused, procs)
       IN  /\ audio_process' = r.audio_process
           /\ is_paused' = r.is_paused
           /\ procs' = r.procs
    /\ calls' = <<calls[2], "stop">>
    /\ pc' = "release"
    /\ UNCHANGED <<callVars, camera, music_file, installs, spawns, is_smiling, last_smile_check,
                   facesLeft, frame, exc, winkVars, smileVars, dispVars, envVars>>

\* Lines 324-325: release the camera and the windows; run() returns.
Release ==
    /\ pc = "release"
    /\ camera' = "released"
    /\ pc' = "done"
    /\ UNCHANGED <<callVars, calls, playVars, is_smiling, last_smile_check,
                   facesLeft, frame, exc, winkVars, smileVars, dispVars, envVars>>

\* A tenth of a second passes while run() is running.
Tick ==
    /\ pc \in {"start", "loop", "faces"}
    /\ now < MaxTime
    /\ now' = now + 1
    /\ UNCHANGED <<callVars, runVars, config, playVars, loopVars, winkVars, smileVars, dispVars>>

----------------------------------------------------------------------------
(* The playback controller called directly, in any order *)

\* The paths load_music is called with.
Paths == {"smile.media_path", "eyebrow_raise.media_path"}

NoCall ==
    [op |-> "none", music_file |-> None, audio_process |-> NoProcess,
     is_paused |-> FALSE, nprocs |-> 0, signal |-> "none", exc |-> "none",
     arg |-> None, found |-> "none"]

CallInit == lastCall = NoCall

\* The call op, made in the current state: signal and exc are what it sent and
\* raised, arg its argument and found what it met outside the program.
Called(op, signal, raised, arg, found) ==
    [op |-> op, music_file |-> music_file, audio_process |-> audio_process,
     is_paused |-> is_paused, nprocs |-> Len(procs), signal |-> signal,
     exc |-> raised, arg |-> arg, found |-> found]

\* load_music(path), where os.path.exists(path) is exists.
Load(path, exists) ==
    /\ music_file' = LoadMusic(music_file, path, exists)
    /\ UNCHANGED <<audio_process, is_paused, procs, installs, spawns,
                   winkVars, smileVars, dispVars, envVars, loopVars, runVars>>

CallLoad ==
    \E path \in Paths, exists \in BOOLEAN :
        /\ Load(path, exists)
        /\ lastCall' = Called("load", "none", "none", path,
                              IF exists THEN "exists" ELSE "missing")

\* play_music(), where the player and the install command behave as env says.
Play(env) ==
    LET r == PlayMusic(music_file, audio_process, is_paused, procs, env)
    IN  /\ Len(r.procs) <= MaxProcs
        /\ audio_process' = r.audio_process
        /\ is_paused' = r.is_paused
        /\ procs' = r.procs
        /\ UNCHANGED <<music_file, installs, spawns,
                       winkVars, smileVars, dispVars, envVars, loopVars, runVars>>

CallPlay ==
    \E env \in PlayEnvs :
        LET r == PlayMusic(music_file, audio_process, is_paused, procs, env)
        IN  /\ Play(env)
            /\ lastCall' = Called("play", r.signal, r.exc, None, env[Len(env)])

\* pause_music().
Pause ==
    LET r == PauseMusic(audio_process, is_paused, procs)
    IN  /\ audio_process' = r.audio_process
        /\ is_paused' = r.is_paused
        /\ procs' = r.procs
        /\ UNCHANGED <<music_file, installs, spawns,
                       winkVars, smileVars, dispVars, envVars, loopVars, runVars>>

CallPause ==
    /\ Pause
    /\ lastCall' = Called("pause", PauseMusic(audio_process, is_paused, procs).signal,
                          "none", None, "none")

\* stop_music().
Stop ==
    LET r == StopMusic(audio_process, is_paused, procs)
    IN  /\ audio_process' = r.audio_process
        /\ is_paused' = r.is_paused
        /\ procs' = r.procs
        /\ UNCHANGED <<music_file, installs, spawns,
                       winkVars, smileVars, dispVars, envVars, loopVars, runVars>>

CallStop ==
    /\ Stop
    /\ lastCall' = Called("stop", StopMusic(audio_process, is_paused, procs).signal,
                          "none", None, "none")

\* The main thread calls the controller while action tasks are running.
MainLoad == \E path \in Paths, exists \in BOOLEAN :
                Load(path, exists) /\ UNCHANGED callVars
MainPlay == \E env \in PlayEnvs : Play(env) /\ UNCHANGED callVars
MainPause == Pause /\ UNCHANGED callVars
MainStop == Stop /\ UNCHANGED callVars

\* The main thread calls trigger_action while it also drives the controller.
MainTrigger == Len(evLog) < MaxTasks /\ TriggerEvent

\* mpg123 ends on its own (it cannot play the file, or it is killed from outside).
ProcExit ==
    \E p \in DOMAIN procs :
        /\ procs[p] \in AliveStates
        /\ procs' = [procs EXCEPT ![p] = "exited"]
        /\ UNCHANGED <<music_file, audio_process, is_paused, installs, spawns,
                       callVars, winkVars, smileVars, dispVars, envVars, loopVars, runVars>>

----------------------------------------------------------------------------
Init == WinkInit /\ SmileInit /\ DispInit /\ EnvInit /\ PlayInit /\ LoopInit
          /\ CallInit

Next == RunStart \/ ReadFrame \/ ProcessFace \/ EndFrame \/ Shutdown \/ Release
          \/ Tick
Spec == Init /\ [][Next]_vars

WinkNext == WinkFrame
WinkSpec == Init /\ [][WinkNext]_vars

SmileNext == SmileFrame
SmileSpec == Init /\ [][SmileNext]_vars

PlaybackNext == CallLoad \/ CallPlay \/ CallPause \/ CallStop \/ ProcExit
PlaybackSpec == Init /\ [][PlaybackNext]_vars

ThreadNext == MainTrigger \/ PlayYoutube \/ Advance
                \/ MainLoad \/ MainPlay \/ MainPause \/ MainStop
ThreadSpec == Init /\ [][ThreadNext]_vars

DispatchNext == TriggerEvent \/ PlayYoutube \/ Advance
DispatchSpec == Init /\ [][DispatchNext]_vars

----------------------------------------------------------------------------
(* Properties *)

\* C1: in run(), every visited face feeds its eye count to detect_wink and its
\* smile flag to detect_smile, and every event they emit reaches trigger_action.
C1_FramesReachDetectors ==
    frame # NoFace =>
        /\ cur = frame.eyes
        /\ last_eye_count = frame.eyes
        /\ (trueRun > 0) = frame.smile
        /\ lastWinkOut => \E i \in DOMAIN evLog : evLog[i].e = "wink"
        /\ lastSmileOut => \E i \in DOMAIN evLog : evLog[i].e = "smile"

\* C2: a run of k single-eye frames, 1 <= k <= 8, right after a two-eye frame
\* and closed by a two-eye frame makes detect_wink return True at the closing
\* frame and at no frame of the run; [2,2,1,1,2,2] returns True at index 4 only.
C2_WinkFires ==
    /\ (cur = 2 /\ runLen \in 1..WinkMaxFrames /\ runPre = 2) => lastWinkOut
    /\ cur = 1 => ~lastWinkOut
    /\ eyeStream = <<2, 2, 1, 1, 2, 2>>
          => winkOut = <<FALSE, FALSE, FALSE, FALSE, TRUE, FALSE>>

\* A run of the longest accepted length has just been closed.
C2_Witness ==
    cur = 2 /\ runLen = WinkMaxFrames /\ runPre = 2 /\ lastWinkOut

\* C3: a run of 9 or more single-eye frames between two-eye frames emits
\* nothing at the closing frame; the run counter is reset.
C3_LongRunSilent ==
    (cur = 2 /\ runLen > WinkMaxFrames /\ runPre = 2)
        => (~lastWinkOut /\ wink_frames = 0)

\* C4: detect_wink returns True only at a two-eye frame that closes an unbroken
\* run of 1 to 8 single-eye frames which itself follows a two-eye frame of the
\* stream.
C4_OnlyOnPattern ==
    lastWinkOut => (cur = 2 /\ runLen \in 1..WinkMaxFrames /\ runPre = 2)

\* C5: detect_smile returns True exactly at the frame where a run of smile
\* frames reaches length 3, so once per run of length >= 3 and never in a
\* shorter one, and a frame without a smile resets the counter to 0;
\* [T,T,T,T,F] returns True at the 3rd frame only.
C5_SmileOnset ==
    /\ lastSmileOut <=> (trueRun = SmileOnsetFrames)
    /\ onsetsInRun = IF trueRun >= SmileOnsetFrames THEN 1 ELSE 0
    /\ trueRun = 0 => smile_frames = 0
    /\ smileStream = <<TRUE, TRUE, TRUE, TRUE, FALSE>>
          => smileOut = <<FALSE, FALSE, TRUE, FALSE, FALSE>>

\* A smile held past the onset: one SmileOnset so far, none at this frame.
C5_Witness ==
    trueRun > SmileOnsetFrames /\ onsetsInRun = 1 /\ ~lastSmileOut

\* Calls i < j of trigger_action for the same expression, none for it in between.
Successive(i, j) ==
    /\ i < j
    /\ evLog[i].e = evLog[j].e
    /\ \A k \in (i + 1)..(j - 1) : evLog[k].e # evLog[i].e

\* C6: after a dispatched event at t, the next event of the same expression, at
\* t + D, is suppressed (no thread, timestamp unchanged) iff D < cooldown and
\* dispatched (timestamp t + D) iff D >= cooldown; two dispatches of one
\* expression are never less than a cooldown apart.
C6_Cooldown ==
    /\ \A i, j \in DOMAIN evLog :
          (Successive(i, j) /\ evLog[i].out = "dispatched") =>
              IF evLog[j].t - evLog[i].t < trigger_cooldown
                THEN /\ evLog[j].out = "suppressed"
                     /\ evLog[j].thread = "none"
                     /\ evLog[j].stamp = evLog[i].t
                ELSE /\ evLog[j].out = "dispatched"
                     /\ evLog[j].stamp = evLog[j].t
    /\ \A i, j \in DOMAIN evLog :
          (/\ i < j
           /\ evLog[i].e = evLog[j].e
           /\ evLog[i].out = "dispatched"
           /\ evLog[j].out = "dispatched")
              => evLog[j].t - evLog[i].t >= trigger_cooldown

\* One expression's event suppressed right after a dispatch, and one
\* dispatched right after a dispatch.
C6_Witness ==
    /\ \E i, j \in DOMAIN evLog :
          /\ Successive(i, j)
          /\ evLog[i].out = "dispatched"
          /\ evLog[j].out = "suppressed"
    /\ \E i, j \in DOMAIN evLog :
          /\ Successive(i, j)
          /\ evLog[i].out = "dispatched"
          /\ evLog[j].out = "dispatched"

IsWink(r) == r.e = "wink"

\* C7: on a fresh dispatcher, winks at 0.0, 2.9 and 3.1 s: the first is
\* dispatched, the second suppressed, the third dispatched.
C7_Scenario ==
    LET w == SelectSeq(evLog, IsWink)
    IN  (Len(w) = 3 /\ w[1].t = 0 /\ w[2].t = 29 /\ w[3].t = 31)
            => /\ w[1].out = "dispatched"
               /\ w[2].out = "suppressed"
               /\ w[3].out = "dispatched"

\* C8: dispatching an expression configured "play_local" starts the local-audio
\* executor and raises nothing in the calling thread.
C8_LocalAudioRuns ==
    \A i \in DOMAIN evLog :
        (evLog[i].out = "dispatched" /\ config[evLog[i].e] = "play_local")
            => (evLog[i].exc = "none" /\ evLog[i].thread = "play_local_audio")

\* C9: one play() runs the install command at most once and tries to spawn the
\* player at most twice.
C9_OneInstallOneRetry ==
    installs <= 1 /\ spawns <= 2

\* C10: whatever the spawn and the install command do, play() returns normally
\* and run() stays in its loop.
C10_MissingPlayerNeverEndsLoop ==
    pc # "crashed" /\ exc = "none"

----------------------------------------------------------------------------
(* Claims about the playback controller *)

\* C11: in every state reached by load/play/pause/stop calls, every spawned
\* process that is still alive is the one the handle refers to (so at most one
\* is alive), and the paused flag is never set while the handle is null.
C11_OneOwnedProcess ==
    /\ \A p \in DOMAIN procs : procs[p] \in AliveStates => p = audio_process
    /\ is_paused => audio_process # NoProcess

\* C12: play() on a paused player spawns nothing: it sends the continue signal
\* to the process the handle refers to, clears the paused flag and keeps the
\* handle; pause() keeps the handle and spawns nothing either, so the process
\* held is the same before pause(), after it and after the following play().
C12_ResumeSameProcess ==
    /\ (lastCall.op = "play" /\ lastCall.audio_process # NoProcess
            /\ lastCall.is_paused)
          => /\ Len(procs) = lastCall.nprocs
             /\ lastCall.signal = "SIGCONT"
             /\ audio_process = lastCall.audio_process
             /\ ~is_paused
    /\ lastCall.op = "pause"
          => /\ Len(procs) = lastCall.nprocs
             /\ audio_process = lastCall.audio_process

\* A paused player has just been resumed by play() and is running again.
C12_Witness ==
    /\ lastCall.op = "play"
    /\ lastCall.audio_process # NoProcess
    /\ lastCall.is_paused
    /\ audio_process = lastCall.audio_process
    /\ procs[audio_process] = "running"

\* The logical state of the controller for a handle and a paused flag.
State(ap, paused) ==
    IF ap = NoProcess THEN "Stopped" ELSE IF paused THEN "Paused" ELSE "Playing"

\* C13: with media loaded and the spawn succeeding, each call moves the
\* controller as the Stopped/Playing/Paused table says: play() goes from Stopped
\* to Playing with a new process, from Paused to Playing with SIGCONT, and does
\* nothing from Playing; pause() goes from Playing to Paused with SIGSTOP and
\* does nothing, sending no signal, from Stopped and from Paused; stop() from
\* Playing or Paused releases the handle and leaves the process it held
\* terminated, and does nothing from Stopped.
C13_TransitionTable ==
    LET before == State(lastCall.audio_process, lastCall.is_paused)
        after  == State(audio_process, is_paused)
        same   == /\ after = before
                  /\ audio_process = lastCall.audio_process
                  /\ Len(procs) = lastCall.nprocs
                  /\ lastCall.signal = "none"
    IN  /\ (lastCall.op = "play" /\ lastCall.music_file # None
                /\ lastCall.found = "spawned")
              => /\ before = "Stopped"
                    => (after = "Playing" /\ Len(procs) = lastCall.nprocs + 1
                          /\ audio_process = Len(procs))
                 /\ before = "Paused"
                    => (after = "Playing" /\ lastCall.signal = "SIGCONT"
                          /\ audio_process = lastCall.audio_process)
                 /\ before = "Playing" => same
        /\ lastCall.op = "pause"
              => /\ before = "Playing"
                    => (after = "Paused" /\ lastCall.signal = "SIGSTOP"
                          /\ audio_process = lastCall.audio_process)
                 /\ before # "Playing" => same
        /\ lastCall.op = "stop"
              => /\ before # "Stopped"
                    => /\ after = "Stopped"
                       /\ procs[lastCall.audio_process] \notin AliveStates
                 /\ before = "Stopped" => same

\* C16: load(path) with a path that does not exist leaves music_file as it
\* was, and load(path) with a file already loaded leaves it as it was.
C16_LoadAtMostOnce ==
    lastCall.op = "load"
        => /\ lastCall.found = "missing" => music_file = lastCall.music_file
           /\ lastCall.music_file # None => music_file = lastCall.music_file

----------------------------------------------------------------------------
(* Claims about the counters *)

\* C19: wink_frames is always 0 or 1 and is 0 after every frame with two
\* eyes, so the test 1 <= wink_frames <= 8 never fails where it is made (the
\* reset without a wink of line 114 is never reached); and wink_frames grows
\* only on a frame with one eye that follows a frame with two eyes.
C19_CounterIsAFlag ==
    /\ [](/\ wink_frames \in {0, 1}
          /\ cur = 2 => wink_frames = 0
          /\ (last_eye_count = 1 /\ wink_frames > 0)
                => wink_frames <= WinkMaxFrames)
    /\ [][wink_frames' > wink_frames
             => (last_eye_count = 2 /\ cur' = 1 /\ wink_frames' = wink_frames + 1)]_vars

\* At least three frames in a row showed one eye and the counter is still 1.
C19_Witness ==
    cur = 1 /\ runLen >= 2 /\ runPre = 2 /\ wink_frames = 1

----------------------------------------------------------------------------
(* Claims about run() *)

\* The playback state, the process states included.
playback == <<audio_process, is_paused, procs>>

\* C14: while run() is in its loop, is_smiling and the playback state change
\* only in a pass that takes a smile sample; a sample is taken only when at
\* least smile_check_interval has passed since the last one; and a pass made
\* earlier than that leaves is_smiling, last_smile_check and the playback state
\* as they were, whatever smile value it sees.
C14_OnlyAtSamples ==
    [][/\ (pc = "faces" /\ (is_smiling' # is_smiling \/ playback' # playback))
             => (last_smile_check' = now /\ last_smile_check' # last_smile_check)
       /\ last_smile_check' # last_smile_check
             => (/\ last_smile_check' = now
                 /\ last_smile_check' - last_smile_check >= smile_check_interval)
       /\ (facesLeft' = facesLeft - 1
             /\ now - last_smile_check < smile_check_interval)
             => UNCHANGED <<is_smiling, last_smile_check, playback>>]_vars

\* A pass made less than smile_check_interval after a sample saw a smile value
\* that differs from is_smiling and changed nothing.
C14_Witness ==
    /\ pc = "faces"
    /\ frame # NoFace
    /\ frame.smile # is_smiling
    /\ last_smile_check > 0
    /\ now > last_smile_check
    /\ now - last_smile_check < smile_check_interval

\* C15: the edges run() reports alternate, the first one rising: a play_music
\* call is the first call or follows a pause_music call, a pause_music call
\* follows a play_music call, and is_smiling tells which call came last.
C15_EdgesAlternate ==
    /\ calls[2] = "play" => (calls[1] \in {"none", "pause"} /\ is_smiling)
    /\ calls[2] = "pause" => (calls[1] = "play" /\ ~is_smiling)
    /\ (calls[2] = "none" /\ pc # "start") => ~is_smiling

\* run() has called play_music, pause_music and play_music again.
C15_Witness ==
    calls = <<"pause", "play">> /\ audio_process # NoProcess /\ ~is_paused

\* C17: when run() has left its loop through the quit key or a failed read,
\* stop_music runs before the camera is released: from then on the handle is
\* None and the paused flag clear, and the camera is released only after that.
C17_StopBeforeRelease ==
    /\ pc \in {"release", "done"}
          => (calls[2] = "stop" /\ State(audio_process, is_paused) = "Stopped")
    /\ camera = "released" <=> pc = "done"

\* run() has ended, and the player was paused when it left the loop.
C17_Witness ==
    /\ pc = "done"
    /\ camera = "released"
    /\ calls = <<"pause", "stop">>
    /\ \E p \in DOMAIN procs : procs[p] # "running"

\* C20: the player is playing only while is_smiling is set and paused only
\* while it is clear; and once is_smiling is set with the controller Stopped
\* (no file loaded, or the spawn failed), run() makes no controller call and
\* the controller stays Stopped for as long as is_smiling stays set.
C20_PlaybackFollowsSmile ==
    /\ [](/\ State(audio_process, is_paused) = "Playing" => is_smiling
          /\ State(audio_process, is_paused) = "Paused" => ~is_smiling)
    /\ [][(pc = "faces" /\ is_smiling /\ is_smiling'
             /\ State(audio_process, is_paused) = "Stopped")
            => (calls' = calls /\ playback' = playback)]_vars

\* is_smiling is set and nothing plays, with a file loaded: the spawn failed.
C20_Witness ==
    /\ pc = "loop"
    /\ is_smiling
    /\ music_file # None
    /\ State(audio_process, is_paused) = "Stopped"
    /\ calls[2] = "play"
    /\ exc = "none"

----------------------------------------------------------------------------
(* Claims about the action tasks *)

\* C18: a step of an action task (a thread started by trigger_action, which
\* leaves the list of running threads when it ends) never changes the music
\* file, the handle, the paused flag or any audio process, whatever the main
\* thread has done to them before and does after; they change only in steps of
\* the main thread, which end no task.
C18_TasksLeavePlayerAlone ==
    [][/\ Len(threads') < Len(threads)
             => UNCHANGED <<music_file, audio_process, is_paused, procs>>
       /\ (audio_process' # audio_process \/ is_paused' # is_paused)
             => (threads' = threads /\ opened' = opened)]_vars

\* A task has ended and another is still running while the player plays.
C18_Witness ==
    /\ opened > 0
    /\ threads # << >>
    /\ audio_process # NoProcess
    /\ procs[audio_process] = "running"

=============================================================================
